---- MODULE Spec2Model ----
(***************************************************************************)
(* Model of the Ascent build recipe                                        *)
(* (var/spack/repos/builtin/packages/ascent/package.py): the variant and   *)
(* dependency declarations, Ascent.create_host_config, which writes the    *)
(* host-config file section by section, and Ascent.install, which runs     *)
(* cmake, make and make install on it.                                     *)
(***************************************************************************)
EXTENDS Integers, Sequences, FiniteSets, TLC

VARIABLES
    spec,            \* the variant selection of the concretized spec
    dag,             \* names of the packages present in the concretized spec
    compiler_fc,     \* self.compiler.fc is set
    fc_isfile,       \* os.path.isfile(env["SPACK_FC"])
    path_cmake,      \* what which("cmake") finds on the search path
    std_cmake_args,  \* the platform-standard cmake arguments
    pc,              \* position in install / create_host_config
    cfg,             \* the host-config file: the sequence of writes made to it
    cfg_state,       \* "absent", "open" or "closed"
    cmake_exe,       \* local cmake_exe of create_host_config
    host_cfg_fname,  \* value returned by create_host_config
    which_calls,     \* number of searches of the search path
    lookups,         \* packages looked up in the spec so far (spec[name])
    invocations,     \* external commands run so far, each <<tool, args>>
    error            \* the exception that ended install, or "none"

vars == <<spec, dag, compiler_fc, fc_isfile, path_cmake, std_cmake_args, pc,
          cfg, cfg_state, cmake_exe, host_cfg_fname, which_calls, lookups,
          invocations, error>>

inputs == <<spec, dag, compiler_fc, fc_isfile, path_cmake, std_cmake_args>>

None == "None"

-----------------------------------------------------------------------------
(* Bounds *)

\* longest list of standard arguments drawn in SpecArgs
MaxArgs == 2

-----------------------------------------------------------------------------
(* Variants and dependencies *)

Variants ==
    {"shared", "cmake", "mpi", "python", "vtkh", "tbb", "cuda", "adios", "doc"}

VariantDefaults ==
    [v \in Variants |-> v \notin {"cuda", "doc"}]

\* depends_on / extends declarations: the package and the variants of its
\* when= guard
Dependencies ==
    { [name |-> "cmake",      when |-> {"cmake"}],
      [name |-> "conduit",    when |-> {}],
      [name |-> "python",     when |-> {}],
      [name |-> "python",     when |-> {"python"}],
      [name |-> "py-numpy",   when |-> {"python"}],
      [name |-> "mpi",        when |-> {"mpi"}],
      [name |-> "py-mpi4py",  when |-> {"python", "mpi"}],
      [name |-> "vtkh",       when |-> {"vtkh"}],
      [name |-> "vtkh",       when |-> {"vtkh", "cuda"}],
      [name |-> "adios",      when |-> {"adios"}],
      [name |-> "py-sphinx",  when |-> {"python", "doc"}] }

\* "+v" in spec
Has(s, v) == s[v]

\* the guard of a declaration under a selection
Active(d, s) == \A v \in d.when : Has(s, v)

\* packages this recipe declares as dependencies under a selection
DeclaredDeps(s) == { d.name : d \in { e \in Dependencies : Active(e, s) } }

\* packages create_host_config looks up that can only be present through
\* another package's dependencies when no declaration of this recipe is active
Transitive == {"py-sphinx", "doxygen", "tbb", "vtkm"}

-----------------------------------------------------------------------------
(* Resolved metadata *)

Hostname == "node1"
\* sys_type: spec.architecture (SYS_TYPE is not set in the environment)
Architecture == "linux-rhel7-x86_64"
Compiler == "gcc@4.9.3"
SPACK_CC == "/usr/bin/gcc"
SPACK_CXX == "/usr/bin/g++"
SPACK_FC == "/usr/bin/gfortran"
WhichCMake == "/usr/bin/cmake"

\* spec[name].prefix
Prefix(name) == "/spack/opt/" \o name

\* spec[name].command.path
CommandPath(name) == Prefix(name) \o "/bin/" \o name

\* join_path
join_path(a, b) == a \o "/" \o b

site_packages_dir == join_path(Prefix("ascent"), "lib/python2.7/site-packages")

\* os.path.abspath inside working_dir('spack-build')
abspath(f) == join_path("/stage/spack-build", f)

\* 'set({0} "{1}" CACHE PATH "")\n\n'.format(name, value), kept as the pieces
\* of the template around the two substituted fields
cmake_cache_entry(name, value) ==
    <<"set(", name, " \"", value, "\" CACHE PATH \"\")\n\n">>

\* cfg.write of a literal line
text(s) == <<s>>

-----------------------------------------------------------------------------
(* Sections of the host-config file.  A section is the sequence of its      *)
(* cfg.write calls in program order; each item carries the package whose    *)
(* spec[...] lookup is evaluated for that write (None when there is none).  *)

item(need, w) == [need |-> need, w |-> w]
plain(w) == item(None, w)

\* FCompiler without the check that the path is a file
FCompilerNoIsfile(fc, isfile) == IF fc THEN SPACK_FC ELSE None

\* f_compiler: env["SPACK_FC"] when the compiler declares a Fortran compiler
\* and that path is a file, None otherwise
FCompiler(fc, isfile) == IF fc /\ isfile THEN SPACK_FC ELSE None

\* the cmake executable recorded when the cmake variant is on
SpecCMakeExe == CommandPath("cmake")

HostCfgFname == Hostname \o "-" \o Architecture \o "-" \o Compiler \o ".cmake"

HeaderSection(exe) ==
    << plain(text("##################################\n")),
       plain(text("# spack generated host-config\n")),
       plain(text("##################################\n")),
       plain(text("# " \o Architecture \o "-" \o Compiler \o "\n")),
       plain(text("##################################\n\n")),
       plain(text("# cmake from spack \n")),
       plain(<<"# cmake executable path: ", exe, "\n\n">>) >>

FortranSection(f_compiler) ==
    IF f_compiler # None
    THEN << plain(cmake_cache_entry("ENABLE_FORTRAN", "ON")),
            plain(cmake_cache_entry("CMAKE_Fortran_COMPILER", f_compiler)) >>
    ELSE << plain(text("# no fortran compiler found\n\n")),
            plain(cmake_cache_entry("ENABLE_FORTRAN", "OFF")) >>

CompilerSection(f_compiler) ==
    << plain(text("#######\n")),
       plain(text("# using " \o Compiler \o " compiler spec\n")),
       plain(text("#######\n\n")),
       plain(text("# c compiler used by spack\n")),
       plain(cmake_cache_entry("CMAKE_C_COMPILER", SPACK_CC)),
       plain(text("# cpp compiler used by spack\n")),
       plain(cmake_cache_entry("CMAKE_CXX_COMPILER", SPACK_CXX)),
       plain(text("# fortran compiler used by spack\n")) >>
    \o FortranSection(f_compiler)

ConduitSection ==
    << plain(text("# conduit from spack \n")),
       item("conduit", cmake_cache_entry("CONDUIT_DIR", Prefix("conduit"))) >>

PythonBlock(s) ==
    IF Has(s, "python")
    THEN << plain(text("# Enable python module builds\n")),
            plain(cmake_cache_entry("ENABLE_PYTHON", "ON")),
            plain(text("# python from spack \n")),
            item("python", cmake_cache_entry("PYTHON_EXECUTABLE",
                                             CommandPath("python"))),
            plain(cmake_cache_entry("PYTHON_MODULE_INSTALL_PREFIX",
                                    site_packages_dir)) >>
    ELSE << plain(cmake_cache_entry("ENABLE_PYTHON", "OFF")) >>

PythonSection(s) == << plain(text("# Python Support\n")) >> \o PythonBlock(s)

DocsBlock(s) ==
    IF Has(s, "doc")
    THEN << plain(cmake_cache_entry("ENABLE_DOCS", "ON")),
            plain(text("# sphinx from spack \n")),
            item("py-sphinx",
                 cmake_cache_entry("SPHINX_EXECUTABLE",
                     join_path(Prefix("py-sphinx") \o "/bin", "sphinx-build"))),
            plain(text("# doxygen from uberenv\n")),
            item("doxygen", cmake_cache_entry("DOXYGEN_EXECUTABLE",
                                              CommandPath("doxygen"))) >>
    ELSE << plain(cmake_cache_entry("ENABLE_DOCS", "OFF")) >>

\* MpiBlock whose disabled branch writes a comment instead of the toggle
MpiBlockCommentWhenOff(s) ==
    IF Has(s, "mpi")
    THEN << plain(cmake_cache_entry("ENABLE_MPI", "ON")),
            item("mpi", cmake_cache_entry("MPI_C_COMPILER",
                                          Prefix("mpi") \o "/bin/mpicc")),
            item("mpi", cmake_cache_entry("MPI_CXX_COMPILER",
                                          Prefix("mpi") \o "/bin/mpicxx")),
            item("mpi", cmake_cache_entry("MPI_Fortran_COMPILER",
                                          Prefix("mpi") \o "/bin/mpif90")) >>
    ELSE << plain(text("# mpi not built by spack \n")) >>

MpiBlock(s) ==
    IF Has(s, "mpi")
    THEN << plain(cmake_cache_entry("ENABLE_MPI", "ON")),
            item("mpi", cmake_cache_entry("MPI_C_COMPILER",
                                          Prefix("mpi") \o "/bin/mpicc")),
            item("mpi", cmake_cache_entry("MPI_CXX_COMPILER",
                                          Prefix("mpi") \o "/bin/mpicxx")),
            item("mpi", cmake_cache_entry("MPI_Fortran_COMPILER",
                                          Prefix("mpi") \o "/bin/mpif90")) >>
    ELSE << plain(cmake_cache_entry("ENABLE_MPI", "OFF")) >>

MpiSection(s) == << plain(text("# MPI Support\n")) >> \o MpiBlock(s)

\* CudaBlock whose disabled branch was copied from the MPI block unchanged
CudaBlockCopyPaste(s) ==
    IF Has(s, "cuda")
    THEN << plain(cmake_cache_entry("ENABLE_CUDA", "ON")) >>
    ELSE << plain(cmake_cache_entry("ENABLE_MPI", "OFF")) >>

CudaBlock(s) ==
    IF Has(s, "cuda")
    THEN << plain(cmake_cache_entry("ENABLE_CUDA", "ON")) >>
    ELSE << plain(cmake_cache_entry("ENABLE_CUDA", "OFF")) >>

CudaSection(s) == << plain(text("# CUDA Support\n")) >> \o CudaBlock(s)

\* VtkhBlock that records tbb only when the tbb variant is on
VtkhBlockTbbVariant(s) ==
    IF Has(s, "vtkh")
    THEN (IF Has(s, "tbb")
          THEN << plain(text("# tbb from spack\n")),
                  item("tbb", cmake_cache_entry("TBB_DIR", Prefix("tbb"))) >>
          ELSE << >>)
         \o << plain(text("# vtk-m from spack\n")),
                item("vtkm", cmake_cache_entry("VTKM_DIR", Prefix("vtkm"))),
                plain(text("# vtk-h from spack\n")),
                item("vtkh", cmake_cache_entry("VTKH_DIR", Prefix("vtkh"))) >>
    ELSE << plain(text("# vtk-h not built by spack \n")) >>

VtkhBlock(s) ==
    IF Has(s, "vtkh")
    THEN << plain(text("# tbb from spack\n")),
            item("tbb", cmake_cache_entry("TBB_DIR", Prefix("tbb"))),
            plain(text("# vtk-m from spack\n")),
            item("vtkm", cmake_cache_entry("VTKM_DIR", Prefix("vtkm"))),
            plain(text("# vtk-h from spack\n")),
            item("vtkh", cmake_cache_entry("VTKH_DIR", Prefix("vtkh"))) >>
    ELSE << plain(text("# vtk-h not built by spack \n")) >>

VtkhSection(s) == << plain(text("# vtk-h support \n")) >> \o VtkhBlock(s)

AdiosBlock(s) ==
    IF Has(s, "adios")
    THEN << item("adios", cmake_cache_entry("ADIOS_DIR", Prefix("adios"))) >>
    ELSE << plain(text("# adios not built by spack \n")) >>

AdiosSection(s) == << plain(text("# adios support\n")) >> \o AdiosBlock(s)

FooterSection ==
    << plain(text("##################################\n")),
       plain(text("# end spack generated host-config\n")),
       plain(text("##################################\n")) >>

\* index of the first item whose lookup fails in d, Len + 1 when none does
RECURSIVE FirstMissing(_, _, _)
FirstMissing(items, d, i) ==
    IF i > Len(items) THEN i
    ELSE IF items[i].need # None /\ items[i].need \notin d THEN i
    ELSE FirstMissing(items, d, i + 1)

\* the writes a section makes before its first failing lookup
Written(items, d) ==
    [k \in 1..(FirstMissing(items, d, 1) - 1) |-> items[k].w]

\* the packages a section looks up, the failing lookup included
LookedUp(items, d) ==
    { items[k].need :
        k \in { j \in 1..Len(items) : j <= FirstMissing(items, d, 1) } }
    \ {None}

\* the package whose lookup raises KeyError in the section, None when none
Missing(items, d) ==
    IF FirstMissing(items, d, 1) > Len(items) THEN None
    ELSE items[FirstMissing(items, d, 1)].need

\* all the writes of create_host_config, in program order
HostConfigItems(s, exe, f_compiler) ==
    HeaderSection(exe) \o CompilerSection(f_compiler) \o ConduitSection
    \o PythonSection(s) \o DocsBlock(s) \o MpiSection(s) \o CudaSection(s)
    \o VtkhSection(s) \o AdiosSection(s) \o FooterSection

\* the cmake executable create_host_config settles on
CMakeExe(s, path) == IF Has(s, "cmake") THEN SpecCMakeExe ELSE path

\* the packages create_host_config looks up under a selection when no lookup
\* fails
Needed(s) ==
    LET items == HostConfigItems(s, None, None)
    IN ({ items[k].need : k \in 1..Len(items) } \ {None})
       \cup (IF Has(s, "cmake") THEN {"cmake"} ELSE {})

-----------------------------------------------------------------------------
(* install: the argument list of the configure invocation *)

\* str.count: the number of non-overlapping occurrences of sub in s from i on
RECURSIVE CountFrom(_, _, _)
CountFrom(s, sub, i) ==
    IF i + Len(sub) - 1 > Len(s) THEN 0
    ELSE IF SubSeq(s, i, i + Len(sub) - 1) = sub
         THEN 1 + CountFrom(s, sub, i + Len(sub))
         ELSE CountFrom(s, sub, i + 1)

count(s, sub) == CountFrom(s, sub, 1)

\* the loop of the static build: keep, in order, the arguments without RPATH
RECURSIVE WithoutRpath(_)
WithoutRpath(args) ==
    IF args = <<>> THEN <<>>
    ELSE IF count(Head(args), "RPATH") = 0
         THEN <<Head(args)>> \o WithoutRpath(Tail(args))
         ELSE WithoutRpath(Tail(args))

\* cmake_args with the test of the shared variant inverted
cmake_argsInverted(s, std, fname) ==
    (IF ~Has(s, "shared") THEN std ELSE WithoutRpath(std))
    \o <<"-C", fname, "../src">>

cmake_args(s, std, fname) ==
    (IF Has(s, "shared") THEN std ELSE WithoutRpath(std))
    \o <<"-C", fname, "../src">>

-----------------------------------------------------------------------------
(* Inputs *)

\* the standard arguments spack passes to cmake for a package
StdCMakeArgs ==
    << "-DCMAKE_INSTALL_PREFIX:PATH=/spack/opt/ascent",
       "-DCMAKE_BUILD_TYPE:STRING=RelWithDebInfo",
       "-DCMAKE_VERBOSE_MAKEFILE:BOOL=ON",
       "-DCMAKE_INSTALL_RPATH_USE_LINK_PATH:BOOL=FALSE",
       "-DCMAKE_INSTALL_RPATH:STRING=/spack/opt/ascent/lib" >>

\* arguments the lists of SpecArgs are built from
ArgPool ==
    { "-DCMAKE_BUILD_TYPE:STRING=Release",
      "-DCMAKE_INSTALL_RPATH:STRING=/lib",
      "-DCMAKE_SKIP_RPATH:BOOL=OFF",
      "RPATH",
      "-DRPAT_H=rpath" }

RECURSIVE SeqsUpTo(_, _)
SeqsUpTo(S, n) ==
    IF n = 0 THEN { <<>> }
    ELSE SeqsUpTo(S, n - 1)
         \cup { Append(q, a) : q \in { r \in SeqsUpTo(S, n - 1) : Len(r) = n - 1 },
                               a \in S }

\* the concretized spec holds the declared dependencies and whatever their own
\* dependencies bring in; of the latter only the packages the selection looks
\* up are drawn, the others change nothing
Dags(s) == { DeclaredDeps(s) \cup t : t \in SUBSET (Transitive \cap Needed(s)) }

InitRun ==
    /\ pc = "find_cmake"
    /\ cfg = <<>>
    /\ cfg_state = "absent"
    /\ cmake_exe = None
    /\ host_cfg_fname = None
    /\ which_calls = 0
    /\ lookups = {}
    /\ invocations = <<>>
    /\ error = "none"

Init ==
    /\ spec \in [Variants -> BOOLEAN]
    /\ dag \in Dags(spec)
    /\ compiler_fc \in BOOLEAN
    /\ fc_isfile \in (IF compiler_fc THEN BOOLEAN ELSE {FALSE})
    /\ path_cmake \in {None, WhichCMake}
    /\ std_cmake_args = StdCMakeArgs
    /\ InitRun

-----------------------------------------------------------------------------
(* create_host_config *)

Raise(e) ==
    /\ pc' = "failed"
    /\ error' = e

\* FindCMake that opens the host-config file before it looks for cmake
FindCMakeOpensFirst ==
    /\ pc = "find_cmake"
    /\ cfg_state' = "open"
    /\ IF Has(spec, "cmake")
       THEN /\ lookups' = lookups \cup {"cmake"}
            /\ cmake_exe' = SpecCMakeExe
            /\ pc' = "header"
            /\ UNCHANGED <<which_calls, error>>
       ELSE /\ which_calls' = which_calls + 1
            /\ UNCHANGED lookups
            /\ IF path_cmake = None
               THEN /\ Raise("RuntimeError: failed to find CMake (and cmake variant is off)")
                    /\ UNCHANGED cmake_exe
               ELSE /\ cmake_exe' = path_cmake
                    /\ pc' = "header"
                    /\ UNCHANGED error
    /\ UNCHANGED <<inputs, cfg, host_cfg_fname, invocations>>

\* FindCMake that searches the path first and falls back on the dependency
FindCMakePrefersPath ==
    /\ pc = "find_cmake"
    /\ which_calls' = which_calls + 1
    /\ IF path_cmake # None
       THEN /\ cmake_exe' = path_cmake
            /\ pc' = "header"
            /\ UNCHANGED <<lookups, error>>
       ELSE IF Has(spec, "cmake")
            THEN /\ lookups' = lookups \cup {"cmake"}
                 /\ cmake_exe' = SpecCMakeExe
                 /\ pc' = "header"
                 /\ UNCHANGED error
            ELSE /\ Raise("RuntimeError: failed to find CMake (and cmake variant is off)")
                 /\ UNCHANGED <<lookups, cmake_exe>>
    /\ UNCHANGED <<inputs, cfg, cfg_state, host_cfg_fname, invocations>>

\* lines 154-185: read the compilers, then find the cmake executable
FindCMake ==
    /\ pc = "find_cmake"
    /\ IF Has(spec, "cmake")
       THEN /\ lookups' = lookups \cup {"cmake"}
            /\ cmake_exe' = SpecCMakeExe
            /\ pc' = "header"
            /\ UNCHANGED <<which_calls, error>>
       ELSE /\ which_calls' = which_calls + 1
            /\ UNCHANGED lookups
            /\ IF path_cmake = None
               THEN /\ Raise("RuntimeError: failed to find CMake (and cmake variant is off)")
                    /\ UNCHANGED cmake_exe
               ELSE /\ cmake_exe' = path_cmake
                    /\ pc' = "header"
                    /\ UNCHANGED error
    /\ UNCHANGED <<inputs, cfg, cfg_state, host_cfg_fname, invocations>>

\* a section of writes to the open file, ended early by a failing lookup
WriteSection(from, to, items) ==
    /\ pc = from
    /\ cfg_state = "open"
    /\ cfg' = cfg \o Written(items, dag)
    /\ lookups' = lookups \cup LookedUp(items, dag)
    /\ IF Missing(items, dag) = None
       THEN pc' = to /\ UNCHANGED error
       ELSE Raise("KeyError: " \o Missing(items, dag))
    /\ UNCHANGED <<inputs, cfg_state, cmake_exe, host_cfg_fname, which_calls,
                   invocations>>

\* lines 187-200: open the file and write the header
OpenAndWriteHeader ==
    /\ pc = "header"
    /\ cfg_state' = "open"
    /\ cfg' = Written(HeaderSection(cmake_exe), dag)
    /\ host_cfg_fname' = HostCfgFname
    /\ pc' = "compilers"
    /\ UNCHANGED <<inputs, cmake_exe, which_calls, lookups, invocations, error>>

WriteCompilers ==
    WriteSection("compilers", "conduit",
                 CompilerSection(FCompiler(compiler_fc, fc_isfile)))

WriteConduit == WriteSection("conduit", "python", ConduitSection)

WritePython == WriteSection("python", "docs", PythonSection(spec))

WriteDocs == WriteSection("docs", "mpi", DocsBlock(spec))

WriteMpi == WriteSection("mpi", "cuda", MpiSection(spec))

WriteCuda == WriteSection("cuda", "vtkh", CudaSection(spec))

WriteVtkh == WriteSection("vtkh", "adios", VtkhSection(spec))

WriteAdios == WriteSection("adios", "footer", AdiosSection(spec))

\* WriteFooterAndClose without cfg.close()
WriteFooterNoClose ==
    /\ pc = "footer"
    /\ cfg_state = "open"
    /\ cfg' = cfg \o Written(FooterSection, dag)
    /\ host_cfg_fname' = abspath(host_cfg_fname)
    /\ pc' = "cmake"
    /\ UNCHANGED <<inputs, cfg_state, cmake_exe, which_calls, lookups,
                   invocations, error>>

\* lines 326-333: write the footer, close the file, return its absolute path
WriteFooterAndClose ==
    /\ pc = "footer"
    /\ cfg_state = "open"
    /\ cfg' = cfg \o Written(FooterSection, dag)
    /\ cfg_state' = "closed"
    /\ host_cfg_fname' = abspath(host_cfg_fname)
    /\ pc' = "cmake"
    /\ UNCHANGED <<inputs, cmake_exe, which_calls, lookups, invocations, error>>

-----------------------------------------------------------------------------
(* install, after create_host_config has returned *)

\* an external command: recorded, then it either succeeds or raises
Invoke(from, to, tool, args) ==
    /\ pc = from
    /\ invocations' = Append(invocations, <<tool, args>>)
    /\ \E ok \in BOOLEAN :
          IF ok THEN pc' = to /\ UNCHANGED error
          ELSE Raise("ProcessError: " \o tool)
    /\ UNCHANGED <<inputs, cfg, cfg_state, cmake_exe, host_cfg_fname,
                   which_calls, lookups>>

\* lines 129-140
RunCMake ==
    Invoke("cmake", "make", "cmake",
           cmake_args(spec, std_cmake_args, host_cfg_fname))

\* install without the make() between cmake and make install
RunMakeSkipped ==
    /\ pc = "make"
    /\ pc' = "make_install"
    /\ UNCHANGED <<inputs, cfg, cfg_state, cmake_exe, host_cfg_fname,
                   which_calls, lookups, invocations, error>>

\* line 141
RunMake == Invoke("make", "make_install", "make", <<>>)

\* line 142
RunMakeInstall == Invoke("make_install", "done", "make", <<"install">>)

Next ==
    \/ FindCMake
    \/ OpenAndWriteHeader
    \/ WriteCompilers
    \/ WriteConduit
    \/ WritePython
    \/ WriteDocs
    \/ WriteMpi
    \/ WriteCuda
    \/ WriteVtkh
    \/ WriteAdios
    \/ WriteFooterAndClose
    \/ RunCMake
    \/ RunMake
    \/ RunMakeInstall

Spec == Init /\ [][Next]_vars

\* the same program, its inputs drawn to exercise the argument list: every
\* list of at most MaxArgs standard arguments, the other variants as declared
InitArgs ==
    /\ spec \in { s \in [Variants -> BOOLEAN] :
                    \A v \in Variants \ {"shared", "cmake", "doc"} :
                        s[v] = VariantDefaults[v] }
    /\ dag \in Dags(spec)
    /\ compiler_fc = TRUE
    /\ fc_isfile = TRUE
    /\ path_cmake \in {None, WhichCMake}
    /\ std_cmake_args \in SeqsUpTo(ArgPool, MaxArgs)
    /\ InitRun

SpecArgs == InitArgs /\ [][Next]_vars

-----------------------------------------------------------------------------
(* Reading the host-config file back *)

IsEntry(w) == Len(w) = 5 /\ w[1] = "set("

\* positions of the cache entries of the file whose key is k
EntriesOf(f, k) == { i \in 1..Len(f) : IsEntry(f[i]) /\ f[i][2] = k }

\* the file has the cache entry k = v
HasEntry(f, k, v) == \E i \in EntriesOf(f, k) : f[i][4] = v

HasLine(f, line) == \E i \in 1..Len(f) : f[i] = <<line>>

\* the cmake executable the header records
RecordedCMake(f) ==
    { f[i][2] : i \in { j \in 1..Len(f) :
                          Len(f[j]) = 3 /\ f[j][1] = "# cmake executable path: " } }

IsPath(v) == Len(v) > 0 /\ SubSeq(v, 1, 1) = "/"

Closed == cfg_state = "closed"

NoCMakeMsg == "RuntimeError: failed to find CMake (and cmake variant is off)"

-----------------------------------------------------------------------------
(* C1 *)

\* C1: with the cmake variant off and no cmake on the search path, install
\* ends in the error create_host_config raises, and then no host-config file
\* exists or has been written and no build command has been invoked.
C1_NoCMakeFailsEarly ==
    (~Has(spec, "cmake") /\ path_cmake = None /\ pc # "find_cmake")
        => /\ pc = "failed"
           /\ error = NoCMakeMsg
           /\ cfg_state = "absent"
           /\ cfg = <<>>
           /\ invocations = <<>>

C1_Witness ==
    ~Has(spec, "cmake") /\ path_cmake = None /\ pc = "failed" /\ which_calls = 1

-----------------------------------------------------------------------------
(* C2 *)

ContainsRpath(a) ==
    \E i \in 1..Len(a) : i + 4 <= Len(a) /\ SubSeq(a, i, i + 4) = "RPATH"

\* positions of the standard arguments that do not contain RPATH
KeptPositions == { i \in 1..Len(std_cmake_args) : ~ContainsRpath(std_cmake_args[i]) }

\* the j-th kept position, counting from the left
KeptAt(j) ==
    CHOOSE i \in KeptPositions : Cardinality({ k \in KeptPositions : k <= i }) = j

\* C2: the configure invocation is passed the standard arguments, all of them
\* in order when shared is on, exactly those without RPATH in their original
\* order when shared is off, followed by "-C", the host-config path, "../src".
C2_ConfigureArguments ==
    invocations # <<>> =>
        LET args == invocations[1][2]
            n == Len(args) - 3
            passed == SubSeq(args, 1, n)
        IN /\ n >= 0
           /\ SubSeq(args, n + 1, n + 3) = <<"-C", host_cfg_fname, "../src">>
           /\ Has(spec, "shared") => passed = std_cmake_args
           /\ ~Has(spec, "shared") =>
                 /\ n = Cardinality(KeptPositions)
                 /\ \A j \in 1..n : passed[j] = std_cmake_args[KeptAt(j)]
                 /\ \A j \in 1..n : ~ContainsRpath(passed[j])

C2_Witness ==
    /\ invocations # <<>>
    /\ ~Has(spec, "shared")
    /\ Len(std_cmake_args) = MaxArgs
    /\ ContainsRpath(std_cmake_args[1])
    /\ ~ContainsRpath(std_cmake_args[MaxArgs])
    /\ Len(invocations[1][2]) = MaxArgs + 2

-----------------------------------------------------------------------------
(* C3 *)

Features == {"python", "doc", "mpi", "cuda", "vtkh", "adios"}

\* the cache keys written by the two blocks of a feature
FeatureKeys(f) ==
    CASE f = "python" -> {"ENABLE_PYTHON", "PYTHON_EXECUTABLE",
                          "PYTHON_MODULE_INSTALL_PREFIX"}
      [] f = "doc"    -> {"ENABLE_DOCS", "SPHINX_EXECUTABLE", "DOXYGEN_EXECUTABLE"}
      [] f = "mpi"    -> {"ENABLE_MPI", "MPI_C_COMPILER", "MPI_CXX_COMPILER",
                          "MPI_Fortran_COMPILER"}
      [] f = "cuda"   -> {"ENABLE_CUDA"}
      [] f = "vtkh"   -> {"TBB_DIR", "VTKM_DIR", "VTKH_DIR"}
      [] f = "adios"  -> {"ADIOS_DIR"}

ToggleKey(f) ==
    CASE f = "python" -> "ENABLE_PYTHON"
      [] f = "doc"    -> "ENABLE_DOCS"
      [] f = "mpi"    -> "ENABLE_MPI"
      [] f = "cuda"   -> "ENABLE_CUDA"

\* positions of the cache entries a feature's block wrote
FeatureEntries(f) ==
    { i \in 1..Len(cfg) : IsEntry(cfg[i]) /\ cfg[i][2] \in FeatureKeys(f) }

IsToggle(w) == w[4] \in {"ON", "OFF"}

\* C3 as stated: for each of the six features the file holds, when the variant
\* is on, several cache entries including a resolved path, and when it is off
\* a single toggle entry.
C3_TwoBlocksPerFeature ==
    Closed =>
        \A f \in Features :
            IF Has(spec, f)
            THEN /\ Cardinality(FeatureEntries(f)) >= 2
                 /\ \E i \in FeatureEntries(f) : IsPath(cfg[i][4])
            ELSE /\ Cardinality(FeatureEntries(f)) = 1
                 /\ \A i \in FeatureEntries(f) : cfg[i][4] = "OFF"

\* C3 amended: python, doc and mpi have an enabled block of several entries
\* (the toggle ON and resolved paths) and a disabled block of the single toggle
\* OFF; cuda has a single toggle entry in both blocks and no path; vtkh and
\* adios have no toggle: the enabled block is the resolved paths only and the
\* disabled block is a comment line without any cache entry.
C3_BlocksPerFeature ==
    Closed =>
        /\ \A f \in {"python", "doc", "mpi"} :
              IF Has(spec, f)
              THEN /\ Cardinality(FeatureEntries(f)) >= 2
                   /\ HasEntry(cfg, ToggleKey(f), "ON")
                   /\ \E i \in FeatureEntries(f) : IsPath(cfg[i][4])
              ELSE /\ Cardinality(FeatureEntries(f)) = 1
                   /\ HasEntry(cfg, ToggleKey(f), "OFF")
        /\ Cardinality(FeatureEntries("cuda")) = 1
        /\ HasEntry(cfg, "ENABLE_CUDA", IF Has(spec, "cuda") THEN "ON" ELSE "OFF")
        /\ \A i \in FeatureEntries("vtkh") \cup FeatureEntries("adios") :
              IsPath(cfg[i][4])
        /\ Cardinality(FeatureEntries("vtkh")) = IF Has(spec, "vtkh") THEN 3 ELSE 0
        /\ Cardinality(FeatureEntries("adios")) = IF Has(spec, "adios") THEN 1 ELSE 0
        /\ HasLine(cfg, "# vtk-h not built by spack \n") <=> ~Has(spec, "vtkh")
        /\ HasLine(cfg, "# adios not built by spack \n") <=> ~Has(spec, "adios")
        /\ \A i \in 1..Len(cfg) :
              (IsEntry(cfg[i]) /\ IsToggle(cfg[i])) =>
                  cfg[i][2] \in {"ENABLE_FORTRAN", "ENABLE_PYTHON", "ENABLE_DOCS",
                                 "ENABLE_MPI", "ENABLE_CUDA"}

C3_Witness ==
    /\ Closed
    /\ Has(spec, "python") /\ Has(spec, "doc") /\ ~Has(spec, "mpi")
    /\ Has(spec, "cuda") /\ ~Has(spec, "vtkh") /\ Has(spec, "adios")
    /\ Cardinality(FeatureEntries("doc")) = 3
    /\ Cardinality(FeatureEntries("adios")) = 1

-----------------------------------------------------------------------------
(* C4 *)

\* C4 as stated: a successful install has invoked the external build tool
\* exactly twice.
C4_TwoInvocations == pc = "done" => Len(invocations) = 2

\* C4 amended: a successful install has made exactly three invocations: cmake
\* once, on the produced host-config file, then make, then make install.
C4_ThreeInvocations ==
    pc = "done" =>
        /\ Len(invocations) = 3
        /\ invocations[1][1] = "cmake"
        /\ \E i \in 1..(Len(invocations[1][2]) - 1) :
              /\ invocations[1][2][i] = "-C"
              /\ invocations[1][2][i + 1] = host_cfg_fname
        /\ host_cfg_fname = abspath(HostCfgFname)
        /\ invocations[2] = <<"make", <<>>>>
        /\ invocations[3] = <<"make", <<"install">>>>

C4_Witness == pc = "done" /\ Len(invocations) = 3 /\ error = "none"

-----------------------------------------------------------------------------
(* C5 *)

\* C5: with the cmake variant on the recorded cmake executable is the one of
\* the cmake dependency, the search path is never consulted and the
\* 'failed to find CMake' error never occurs, whatever the search path holds;
\* with the variant off the recorded executable is the one found on the path.
C5_RecordedCMake ==
    /\ Has(spec, "cmake") =>
          /\ which_calls = 0
          /\ error # NoCMakeMsg
          /\ cfg # <<>> => RecordedCMake(cfg) = {SpecCMakeExe}
    /\ (~Has(spec, "cmake") /\ cfg # <<>>) =>
          /\ path_cmake # None
          /\ which_calls = 1
          /\ RecordedCMake(cfg) = {path_cmake}

C5_Witness ==
    /\ Has(spec, "cmake") /\ path_cmake = None
    /\ Closed
    /\ RecordedCMake(cfg) = {SpecCMakeExe}

-----------------------------------------------------------------------------
(* C6 *)

FooterWrites == Written(FooterSection, {})

EndsWithFooter(f) ==
    /\ Len(f) >= Len(FooterWrites)
    /\ SubSeq(f, Len(f) - Len(FooterWrites) + 1, Len(f)) = FooterWrites

BuildSteps == << "cmake", "make", "make install" >>

\* the command line of an invocation, tool first
StepName(inv) == IF inv[1] = "make" /\ inv[2] = <<"install">> THEN "make install"
                 ELSE IF inv[2] = <<>> \/ inv[1] = "cmake" THEN inv[1]
                 ELSE "other"

\* C6: the host-config file is completely written and closed, then cmake,
\* make and make install run in that order; nothing runs after a step has
\* failed, and cmake only ever runs on a closed, complete host-config file.
C6_StepsInOrder ==
    /\ [](/\ Len(invocations) <= 3
          /\ \A i \in 1..Len(invocations) : StepName(invocations[i]) = BuildSteps[i]
          /\ invocations # <<>> =>
                /\ Closed
                /\ EndsWithFooter(cfg)
                /\ HasEntry(cfg, "CONDUIT_DIR", Prefix("conduit")))
    /\ [][error = "none"]_vars
    /\ [][invocations' # invocations =>
            /\ Closed
            /\ EndsWithFooter(cfg)
            /\ cfg' = cfg /\ cfg_state' = cfg_state
            /\ Len(invocations') = Len(invocations) + 1]_vars

C6_Witness ==
    /\ pc = "failed" /\ error = "ProcessError: make"
    /\ Len(invocations) = 2
    /\ Closed

-----------------------------------------------------------------------------
(* C7 *)

\* C7: every package whose metadata create_host_config looks up in the spec is
\* a dependency this recipe declares with a guard that is true under the
\* selected variants.
C7_LookupsAreDeclared == lookups \subseteq DeclaredDeps(spec)

-----------------------------------------------------------------------------
(* C8 *)

\* C8: when create_host_config has completed, no cache key occurs twice in the
\* file, each of ENABLE_FORTRAN, ENABLE_PYTHON, ENABLE_DOCS, ENABLE_MPI and
\* ENABLE_CUDA has exactly one entry, and the last four are ON exactly when
\* the python, doc, mpi and cuda variant is selected, OFF otherwise.
C8_ToggleEntries ==
    Closed =>
        /\ LET entries == { i \in 1..Len(cfg) : IsEntry(cfg[i]) }
           IN Cardinality({ cfg[i][2] : i \in entries }) = Cardinality(entries)
        /\ \A k \in {"ENABLE_FORTRAN", "ENABLE_PYTHON", "ENABLE_DOCS", "ENABLE_MPI",
                     "ENABLE_CUDA"} : Cardinality(EntriesOf(cfg, k)) = 1
        /\ \A f \in {"python", "doc", "mpi", "cuda"} :
              /\ HasEntry(cfg, ToggleKey(f), "ON") <=> Has(spec, f)
              /\ HasEntry(cfg, ToggleKey(f), "OFF") <=> ~Has(spec, f)

C8_Witness ==
    /\ Closed
    /\ Has(spec, "doc") /\ ~Has(spec, "python") /\ Has(spec, "cuda")
    /\ HasEntry(cfg, "ENABLE_DOCS", "ON")
    /\ HasEntry(cfg, "ENABLE_PYTHON", "OFF")

-----------------------------------------------------------------------------
(* C9 *)

\* the compiler settings have been written
CompilersWritten == HasLine(cfg, "# fortran compiler used by spack\n")

\* C9: the file has ENABLE_FORTRAN=ON and a CMAKE_Fortran_COMPILER entry
\* exactly when the compiler declares a Fortran compiler and SPACK_FC is an
\* existing file; otherwise it has ENABLE_FORTRAN=OFF and no
\* CMAKE_Fortran_COMPILER entry, and a declared Fortran compiler that does not
\* exist raises no error.
C9_Fortran ==
    /\ CompilersWritten =>
          IF compiler_fc /\ fc_isfile
          THEN /\ HasEntry(cfg, "ENABLE_FORTRAN", "ON")
               /\ HasEntry(cfg, "CMAKE_Fortran_COMPILER", SPACK_FC)
               /\ ~HasEntry(cfg, "ENABLE_FORTRAN", "OFF")
          ELSE /\ HasEntry(cfg, "ENABLE_FORTRAN", "OFF")
               /\ EntriesOf(cfg, "CMAKE_Fortran_COMPILER") = {}
               /\ ~HasEntry(cfg, "ENABLE_FORTRAN", "ON")
    /\ (compiler_fc /\ ~fc_isfile /\ cfg_state # "absent") =>
          /\ pc = "compilers" \/ CompilersWritten
          /\ pc = "failed" => error \notin {NoCMakeMsg, "none"}
          /\ pc = "failed" => (Closed \/ SubSeq(error, 1, 8) = "KeyError")

C9_Witness ==
    /\ compiler_fc /\ ~fc_isfile
    /\ pc = "done"
    /\ HasEntry(cfg, "ENABLE_FORTRAN", "OFF")

-----------------------------------------------------------------------------
(* C10 *)

====
